---------------------------- MODULE Spec2Model ----------------------------
(***************************************************************************)
(* A model of pycomplete: the Completer (construction over the registered  *)
(* getters, shell resolution, dispatch and the four dialect renderers) and *)
(* the two getters (argparse, click).                                      *)
(*                                                                         *)
(* Text.  A Python str is a sequence of one-character strings, so that     *)
(* replace, strip, slicing, re.sub and the code-point order of sorted()    *)
(* are computed character by character.  The literal pieces of the format  *)
(* strings of the renderers ("complete -o default -F ", "            (")   *)
(* are kept as one element each: no operation of the code looks inside     *)
(* them.  None is the value None below, which is no str.                   *)
(*                                                                         *)
(* A rendered script is template.safe_substitute(mapping); the model keeps *)
(* the mapping (slot name -> text) the renderer passes to the template.    *)
(***************************************************************************)
EXTENDS Naturals, Sequences, FiniteSets, TLC

VARIABLES
    click,      \* whether `import click` succeeded when getters.py was loaded
    env,        \* the value of the SHELL environment variable, or None
    argv0,      \* sys.argv[0], already resolved by realpath
    cli,        \* the CLI object last handed to a constructor or a getter
    completer,  \* the constructed Completer (its getter and prog), or NoCompleter
    call,       \* the last operation called, with its arguments
    result      \* what that call returned or raised

vars == <<click, env, argv0, cli, completer, call, result>>

-----------------------------------------------------------------------------
(* Python values *)

None == <<"None">>

\* Truthiness of an Optional[str]: None and "" are falsy.
Truthy(s) == s # None /\ s # <<>>

(* Code points of the characters the model's texts are made of. *)
Ord(c) ==
    CASE c = "\n" -> 10
      [] c = " "  -> 32
      [] c = "\"" -> 34
      [] c = "'"  -> 39
      [] c = "-"  -> 45
      [] c = "."  -> 46
      [] c = "/"  -> 47
      [] c = "1"  -> 49
      [] c = ":"  -> 58
      [] c = "A"  -> 65
      [] c = "\\" -> 92
      [] c = "_"  -> 95
      [] c = "a"  -> 97
      [] c = "b"  -> 98
      [] c = "c"  -> 99
      [] c = "f"  -> 102
      [] c = "h"  -> 104
      [] c = "i"  -> 105
      [] c = "m"  -> 109
      [] c = "p"  -> 112
      [] c = "q"  -> 113
      [] c = "s"  -> 115
      [] c = "t"  -> 116
      [] c = "v"  -> 118
      [] c = "x"  -> 120
      [] c = "y"  -> 121
      [] c = "z"  -> 122

\* str.__lt__: lexicographic by code point, a proper prefix is smaller.
RECURSIVE StrLT(_, _)
StrLT(s, t) ==
    IF t = <<>> THEN FALSE
    ELSE IF s = <<>> THEN TRUE
    ELSE IF s[1] = t[1] THEN StrLT(Tail(s), Tail(t))
    ELSE Ord(s[1]) < Ord(t[1])

\* One step of sorted(): x goes before the first element greater than it
\* (so equal elements keep their order: the sort is stable).
RECURSIVE InsertSorted(_, _)
InsertSorted(x, done) ==
    IF done = <<>> THEN <<x>>
    ELSE IF StrLT(x, done[1]) THEN <<x>> \o done
    ELSE <<done[1]>> \o InsertSorted(x, Tail(done))

RECURSIVE SortedFrom(_, _)
SortedFrom(xs, done) ==
    IF xs = <<>> THEN done
    ELSE SortedFrom(Tail(xs), InsertSorted(xs[1], done))

\* sorted(xs) for a list of str.
sorted(xs) == SortedFrom(xs, <<>>)

\* sep.join(xs)
RECURSIVE join(_, _)
join(sep, xs) ==
    IF xs = <<>> THEN <<>>
    ELSE IF Len(xs) = 1 THEN xs[1]
    ELSE xs[1] \o sep \o join(sep, Tail(xs))

\* s.replace(c, r) for a one-character c.
RECURSIVE replace(_, _, _)
replace(s, c, r) ==
    IF s = <<>> THEN <<>>
    ELSE (IF s[1] = c THEN r ELSE <<s[1]>>) \o replace(Tail(s), c, r)

RECURSIVE lstrip(_, _)
lstrip(s, c) == IF s # <<>> /\ s[1] = c THEN lstrip(Tail(s), c) ELSE s

RECURSIVE rstrip(_, _)
rstrip(s, c) ==
    IF s # <<>> /\ s[Len(s)] = c THEN rstrip(SubSeq(s, 1, Len(s) - 1), c) ELSE s

\* s.strip(c) for a one-character c: every leading and trailing c goes.
strip(s, c) == rstrip(lstrip(s, c), c)

\* s[n:]
SliceFrom(s, n) == SubSeq(s, n + 1, Len(s))

\* The elements of a list, as a set (set(xs)).
Range(xs) == { xs[i] : i \in DOMAIN xs }

\* os.path.basename(p): what follows the last "/".
RECURSIVE basename(_)
basename(p) ==
    IF \E i \in DOMAIN p : p[i] = "/"
    THEN basename(Tail(p))
    ELSE p

-----------------------------------------------------------------------------
(* Naming and escaping utilities: Completer._generate_function_name,       *)
(* _sanitize_for_function_name, _zsh_describe.                             *)

\* The two characters of the re.sub class of _zsh_describe that cannot be
\* written as a TLA+ string: the backtick and \xFF.
Backtick == "<backtick>"
XFF == "<0xFF>"

\* The character class of re.sub in _zsh_describe:
\* ["'#&;`|*?~<>^()\[\]{}$\\\x0A\xFF]
MetaChars ==
    { "\"", "'", "#", "&", ";", Backtick, "|", "*", "?", "~", "<", ">", "^",
      "(", ")", "[", "]", "{", "}", "$", "\\", "\n", XFF }

\* A description passed on as it is.
Unescaped(s) == s

\* re.sub(r'([...])', r"\\\1", description): a backslash before each of them.
RECURSIVE EscapeMeta(_)
EscapeMeta(s) ==
    IF s = <<>> THEN <<>>
    ELSE (IF s[1] \in MetaChars THEN <<"\\", s[1]>> ELSE <<s[1]>>)
         \o EscapeMeta(Tail(s))

\* n backslashes
Backslashes(n) == [i \in 1..n |-> "\\"]

\* The loop of subprocess.list2cmdline over the characters of its one
\* argument: bs counts the backslashes held back in bs_buf.
RECURSIVE L2CChars(_, _)
L2CChars(arg, bs) ==
    IF arg = <<>> THEN Backslashes(bs)
    ELSE IF arg[1] = "\\" THEN L2CChars(Tail(arg), bs + 1)
    ELSE IF arg[1] = "\"" THEN
        Backslashes(2 * bs) \o <<"\\", "\"">> \o L2CChars(Tail(arg), 0)
    ELSE Backslashes(bs) \o <<arg[1]>> \o L2CChars(Tail(arg), 0)

\* The backslashes arg ends with (what bs_buf holds when the loop is over).
RECURSIVE TrailingBackslashes(_)
TrailingBackslashes(arg) ==
    IF arg # <<>> /\ arg[Len(arg)] = "\\"
    THEN 1 + TrailingBackslashes(SubSeq(arg, 1, Len(arg) - 1))
    ELSE 0

\* subprocess.list2cmdline([arg]): quoted when arg is empty or holds a space
\* or a tab; then the trailing backslashes are added a second time before
\* the closing quote.
list2cmdline(arg) ==
    LET needquote == arg = <<>> \/ \E i \in DOMAIN arg : arg[i] \in {" ", "\t"}
    IN  IF needquote
        THEN <<"\"">> \o L2CChars(arg, 0)
             \o Backslashes(TrailingBackslashes(arg)) \o <<"\"">>
        ELSE L2CChars(arg, 0)

\* Completer._zsh_describe(value, description)
_zsh_describe(value, description) ==
    LET quoted == <<"\"">> \o replace(value, ":", <<"\\", ":">>)
        withdesc ==
            IF Truthy(description)
            THEN quoted \o <<":">>
                 \o strip(list2cmdline(EscapeMeta(description)), "\"")
            ELSE quoted
    IN  withdesc \o <<"\"">>

WordChars ==
    { "a", "b", "c", "d", "e", "f", "g", "h", "i", "j", "k", "l", "m", "n",
      "o", "p", "q", "r", "s", "t", "u", "v", "w", "x", "y", "z",
      "A", "B", "C", "D", "E", "F", "G", "H", "I", "J", "K", "L", "M", "N",
      "O", "P", "Q", "R", "S", "T", "U", "V", "W", "X", "Y", "Z",
      "0", "1", "2", "3", "4", "5", "6", "7", "8", "9", "_" }

\* re.sub("[^A-Za-z0-9_]+", "", s)
RECURSIVE OnlyWordChars(_)
OnlyWordChars(s) ==
    IF s = <<>> THEN <<>>
    ELSE (IF s[1] \in WordChars THEN <<s[1]>> ELSE <<>>)
         \o OnlyWordChars(Tail(s))

\* A name stripped of what is no word character, dashes included.
StrippedOnly(name) == OnlyWordChars(name)

\* Completer._sanitize_for_function_name(name)
_sanitize_for_function_name(name) ==
    OnlyWordChars(replace(name, "-", <<"_">>))

\* hashlib.md5(path.encode("utf-8")).hexdigest()[0:16], kept symbolic: a
\* text that is a function of the path and of nothing else.
Md5Hex16(path) == <<"md5(">> \o path \o <<").hexdigest()[0:16]">>

\* Completer._generate_function_name(script_name, script_path)
_generate_function_name(script_name, script_path) ==
    <<"_">> \o _sanitize_for_function_name(script_name) \o <<"_">>
    \o Md5Hex16(script_path) \o <<"_complete">>

-----------------------------------------------------------------------------
(* The BaseGetter interface, as the renderers use it.  A getter is the     *)
(* record [help, options, commands]: help an Optional[str], options the    *)
(* list of (name, help) pairs get_options() yields, commands the dict      *)
(* get_commands() returns, kept as the list of its (name, getter) items in *)
(* insertion order (the names are its keys: no name occurs twice).         *)

get_options(getter) == getter.options
get_commands(getter) == getter.commands
help(getter) == getter.help

\* The first spelling of a list, whatever its length.
FirstSpelling(xs) == xs[1]

\* max(xs, key=len): the first of the longest elements of a list.
max_len(xs) ==
    xs[CHOOSE i \in DOMAIN xs :
          /\ \A j \in DOMAIN xs : Len(xs[j]) <= Len(xs[i])
          /\ \A j \in DOMAIN xs : j < i => Len(xs[j]) < Len(xs[i])]

\* ArgparseGetter.get_options over parser._actions: an action without
\* option strings is skipped, another yields its longest option string and
\* its help.
RECURSIVE ArgparseGetter_get_options(_)
ArgparseGetter_get_options(actions) ==
    IF actions = <<>> THEN <<>>
    ELSE (IF actions[1].option_strings = <<>> THEN <<>>
          ELSE << <<max_len(actions[1].option_strings), actions[1].help>> >>)
         \o ArgparseGetter_get_options(Tail(actions))

\* ClickGetter.get_options over cli.get_params(ctx): a parameter without a
\* help record is skipped, another yields the longest of its opts with its
\* help and, when it has secondary opts, the longest of these with the same
\* help.
RECURSIVE ClickGetter_get_options(_)
ClickGetter_get_options(params) ==
    IF params = <<>> THEN <<>>
    ELSE (IF params[1].help_record = None THEN <<>>
          ELSE << <<max_len(params[1].opts), params[1].help>> >>
               \o (IF params[1].secondary_opts # <<>>
                   THEN << <<max_len(params[1].secondary_opts),
                             params[1].help>> >>
                   ELSE <<>>))
         \o ClickGetter_get_options(Tail(params))

\* [name for name, _ in pairs]
Names(pairs) == [i \in DOMAIN pairs |-> pairs[i][1]]

\* A dict built by d[k] = v over the pairs in order: the last write wins.
DictGet(pairs, k) ==
    LET last == CHOOSE i \in DOMAIN pairs :
                    /\ pairs[i][1] = k
                    /\ \A j \in DOMAIN pairs : pairs[j][1] = k => j <= i
    IN  pairs[last][2]

\* The elements of a set in some order (iteration over a Python set).
RECURSIVE SetToSeq(_)
SetToSeq(S) ==
    IF S = {} THEN <<>>
    ELSE LET x == CHOOSE y \in S : TRUE IN <<x>> \o SetToSeq(S \ {x})

\* sorted(pairs) for (name, value) pairs whose names differ pairwise: the
\* order of the names decides.
RECURSIVE InsertPair(_, _)
InsertPair(x, done) ==
    IF done = <<>> THEN <<x>>
    ELSE IF StrLT(x[1], done[1][1]) THEN <<x>> \o done
    ELSE <<done[1]>> \o InsertPair(x, Tail(done))

RECURSIVE SortedPairsFrom(_, _)
SortedPairsFrom(xs, done) ==
    IF xs = <<>> THEN done
    ELSE SortedPairsFrom(Tail(xs), InsertPair(xs[1], done))

sorted_items(pairs) == SortedPairsFrom(pairs, <<>>)

\* What a call gives: a value, or an exception.
Return(v) == [ok |-> TRUE, value |-> v]
Raise(exc, msg) == [ok |-> FALSE, exc |-> exc, msg |-> msg]

version == <<"0.4.0">>

\* script_path of the renderers: realpath(sys.argv[0])
script_path == argv0

-----------------------------------------------------------------------------
(* The renderers.  self is the Completer: [getter, prog].                  *)

\* The option names of a command, in the order get_options() yields them.
OptionNames(getter) == Names(get_options(getter))

\* commands_options[name] of render_bash, render_zsh and render_powershell:
\* the option names of the command stored under name.
CommandsOptions(self, name) ==
    OptionNames(DictGet(get_commands(self.getter), name))

\* The options of a case block with the sorting left out.
BashBlockOptionsUnsorted(names) ==
    [j \in DOMAIN names |-> strip(_zsh_describe(names[j], None), "\"")]

\* The options of a case block of render_bash, from the option names of the
\* command: sorted, then each written by _zsh_describe and stripped of its
\* quotes.
BashBlockOptions(names) ==
    [j \in DOMAIN sorted(names) |->
        strip(_zsh_describe(sorted(names)[j], None), "\"")]

\* One entry of command_list of render_bash: the case block of a command.
BashBlock(self, commands, i) ==
    LET options == BashBlockOptions(CommandsOptions(self, commands[i]))
        desc == << <<"            (">> \o commands[i] \o <<")">>,
                   <<"            opts=\"">> \o join(<<" ">>, options) \o <<"\"">>,
                   <<"            ;;">> >>
    IN  join(<<"\n">>,
             IF i < Len(commands) THEN Append(desc, <<>>) ELSE desc)

\* Completer.render_bash
render_bash(self) ==
    LET script_name == self.prog[1]
        aliases == self.prog
        function == _generate_function_name(script_name, script_path)
        global_options == Range(OptionNames(self.getter))
        commands == sorted(Names(get_commands(self.getter)))
        compdefs ==
            join(<<"\n">>,
                 [i \in DOMAIN aliases |->
                     <<"complete -o default -F ">> \o function \o <<" ">>
                     \o aliases[i]])
        command_list == [i \in DOMAIN commands |-> BashBlock(self, commands, i)]
    IN  Return([template |-> "bash",
                script_name |-> script_name,
                function |-> function,
                opts |-> join(<<" ">>, sorted(SetToSeq(global_options))),
                coms |-> join(<<" ">>, commands),
                command_list |-> join(<<"\n">>, command_list),
                compdefs |-> compdefs,
                version |-> version])

\* The writes to options_descriptions of render_zsh, in the order the code
\* makes them: the root's options, then those of each command in the order
\* get_commands() enumerates the commands.
RECURSIVE CommandsOptionWrites(_)
CommandsOptionWrites(commands) ==
    IF commands = <<>> THEN <<>>
    ELSE get_options(commands[1][2]) \o CommandsOptionWrites(Tail(commands))

\* Descriptions kept per scope: the root's options only.
RootOptionWrites(self) == get_options(self.getter)

OptionsDescriptionsWrites(self) ==
    get_options(self.getter) \o CommandsOptionWrites(get_commands(self.getter))

\* Every alias bound, the first one too.
AllAliases(prog) == prog

\* script_name, *aliases = self.prog: the aliases of render_zsh.
SecondaryAliases(prog) == Tail(prog)

\* One entry of command_list of render_zsh.
ZshBlock(self, commands, i) ==
    LET command == DictGet(get_commands(self.getter), commands[i])
        names == sorted(OptionNames(command))
        options == [j \in DOMAIN names |->
                       _zsh_describe(names[j],
                                     DictGet(get_options(command), names[j]))]
        desc == << <<"            (">> \o commands[i] \o <<")">>,
                   <<"            opts=(">> \o join(<<" ">>, options) \o <<")">>,
                   <<"            ;;">> >>
    IN  join(<<"\n">>,
             IF i < Len(commands) THEN Append(desc, <<>>) ELSE desc)

\* Completer.render_zsh
render_zsh(self) ==
    LET script_name == self.prog[1]
        aliases == SecondaryAliases(self.prog)
        function == _generate_function_name(script_name, script_path)
        global_options == SetToSeq(Range(OptionNames(self.getter)))
        cmds == get_commands(self.getter)
        commands_descriptions ==
            [i \in DOMAIN cmds |-> _zsh_describe(cmds[i][1], help(cmds[i][2]))]
        compdefs ==
            join(<<"\n">>,
                 [i \in DOMAIN aliases |->
                     <<"compdef ">> \o function \o <<" ">> \o aliases[i]])
        commands == sorted(Names(cmds))
        command_list == [i \in DOMAIN commands |-> ZshBlock(self, commands, i)]
        opts == [i \in DOMAIN global_options |->
                    _zsh_describe(global_options[i],
                                  DictGet(OptionsDescriptionsWrites(self),
                                          global_options[i]))]
    IN  Return([template |-> "zsh",
                script_name |-> script_name,
                function |-> function,
                opts |-> join(<<" ">>, sorted(opts)),
                coms |-> join(<<" ">>, sorted(commands_descriptions)),
                command_list |-> join(<<"\n">>, command_list),
                compdefs |-> compdefs,
                version |-> version])

\* ", ".join(f'"{x}"' for x in xs)
QuotedList(xs) ==
    join(<<", ">>, [i \in DOMAIN xs |-> <<"\"">> \o xs[i] \o <<"\"">>])

\* Completer.render_powershell
render_powershell(self) ==
    LET script_name == self.prog[1]
        aliases == self.prog
        function == _generate_function_name(script_name, script_path)
        global_options == Range(OptionNames(self.getter))
        commands == Names(get_commands(self.getter))
        command_list ==
            [i \in DOMAIN commands |->
                <<"                \"">> \o commands[i] \o <<"\" { $opts = @(">>
                \o QuotedList(sorted(CommandsOptions(self, commands[i])))
                \o <<") }">>]
    IN  Return([template |-> "powershell",
                script_name |-> script_name,
                function |-> function,
                aliases |-> QuotedList(aliases),
                opts |-> QuotedList(sorted(SetToSeq(global_options))),
                coms |-> QuotedList(sorted(commands)),
                command_list |-> join(<<"\n">>, command_list),
                version |-> version])

\* What text.replace("'", "\\'") raises when text is None.
NoneHasNoReplace ==
    Raise("AttributeError", <<"'NoneType' object has no attribute 'replace'">>)

\* The option rules of render_fish: one line per (name, help) pair of the
\* sorted options, each made of prefix, name[2:] and the help with its
\* single quotes escaped; the first help that is None raises.
RECURSIVE FishOptionLines(_, _)
FishOptionLines(prefix, options) ==
    IF options = <<>> THEN Return(<<>>)
    ELSE IF options[1][2] = None THEN NoneHasNoReplace
    ELSE LET rest == FishOptionLines(prefix, Tail(options))
             line == prefix \o <<" -l ">> \o SliceFrom(options[1][1], 2)
                     \o <<" -d '">> \o replace(options[1][2], "'", <<"\\", "'">>)
                     \o <<"'">>
         IN  IF rest.ok THEN Return(<<line>> \o rest.value) ELSE rest

\* A variable named after the command alone, whatever its parents.
OwnNameVar(parents, name) == name \o <<"_subcommands">>

\* subcommands_var of cmd_completion: the variable that lists the
\* subcommands of the command name under parents.
SubcommandsVar(parents, name) ==
    IF parents # <<>>
    THEN join(<<"_">>, parents) \o <<"_">> \o name \o <<"_subcommands">>
    ELSE name \o <<"_subcommands">>

\* cmd_completion of render_fish, and the loop over the sorted
\* (name, command) items that calls it: lines 250-257 for the subcommands of
\* a command, lines 280-284 for the commands of the root.
RECURSIVE cmd_completion(_, _, _, _)
RECURSIVE CommandsCompletion(_, _, _, _)
cmd_completion(ctx, name, command, parents) ==
    LET parents_join == join(<<"_">>, parents)
        header == <<"# ">> \o join(<<" ">>, Append(parents, name))
        see_parent ==
            join(<<"; and ">>,
                 [i \in DOMAIN parents |->
                     <<"__fish_seen_subcommand_from ">> \o parents[i]])
        no_subcommand ==
            <<"not __fish_seen_subcommand_from $">> \o parents_join
            \o <<"_subcommands">>
        gate ==
            IF parents = <<>>
            THEN <<"__fish">> \o ctx.function \o <<"_no_subcommand">>
            ELSE see_parent \o <<"; and ">> \o no_subcommand
        see_this == <<"__fish_seen_subcommand_from ">> \o name
        condition ==
            IF parents # <<>> THEN see_parent \o <<"; and ">> \o see_this
            ELSE see_this
        subcommands == get_commands(command)
        subcommands_var == SubcommandsVar(parents, name)
    IN  IF help(command) = None THEN NoneHasNoReplace
        ELSE
        LET rule == <<"complete -c ">> \o ctx.script_name \o <<" -f -n '">>
                    \o gate \o <<"' -a ">> \o name \o <<" -d '">>
                    \o replace(help(command), "'", <<"\\", "'">>) \o <<"'">>
            options ==
                FishOptionLines(
                    <<"complete -c ">> \o ctx.script_name \o <<" -A -n '">>
                    \o condition \o <<"'">>,
                    sorted_items(get_options(command)))
        IN  IF ~options.ok THEN options
            ELSE IF subcommands = <<>>
            THEN Return(<<header, rule>> \o options.value)
            ELSE
            LET nested == CommandsCompletion(ctx, sorted_items(subcommands),
                                             Append(parents, name), 1)
            IN  IF ~nested.ok THEN nested
                ELSE Return(<<header, rule>> \o options.value
                            \o << <<"# ">> \o name \o <<" subcommands">>,
                                  <<"set -l ">> \o subcommands_var \o <<" ">>
                                  \o join(<<" ">>, sorted(Names(subcommands))) >>
                            \o nested.value)

CommandsCompletion(ctx, items, parents, i) ==
    IF i > Len(items) THEN Return(<<>>)
    ELSE LET this == cmd_completion(ctx, items[i][1], items[i][2], parents)
             rest == CommandsCompletion(ctx, items, parents, i + 1)
         IN  IF ~this.ok THEN this
             ELSE IF ~rest.ok THEN rest
             ELSE Return(this.value
                         \o (IF i < Len(items) THEN << <<>> >> ELSE <<>>)
                         \o rest.value)

\* Completer.render_fish
render_fish(self) ==
    LET script_name == self.prog[1]
        function == _generate_function_name(script_name, script_path)
        ctx == [script_name |-> script_name, function |-> function]
        opts ==
            FishOptionLines(
                <<"complete -c ">> \o script_name \o <<" -n '__fish">>
                \o function \o <<"_no_subcommand'">>,
                sorted_items(get_options(self.getter)))
        all_commands == sorted_items(get_commands(self.getter))
        cmd_names == Range(Names(all_commands))
        cmds == CommandsCompletion(ctx, all_commands, <<>>, 1)
    IN  IF ~opts.ok THEN opts
        ELSE IF ~cmds.ok THEN cmds
        ELSE Return([template |-> "fish",
                     script_name |-> script_name,
                     function |-> function,
                     cmds_names |-> join(<<" ">>, sorted(SetToSeq(cmd_names))),
                     opts |-> join(<<"\n">>, opts.value),
                     cmds |-> join(<<"\n">>, cmds.value),
                     version |-> version])

-----------------------------------------------------------------------------
(* Completer: construction, shell resolution and dispatch.                 *)

\* templates.SUPPORTED_SHELLS
bash == <<"b", "a", "s", "h">>
zsh == <<"z", "s", "h">>
fish == <<"f", "i", "s", "h">>
powershell == <<"p", "o", "w", "e", "r", "s", "h", "e", "l", "l">>
\* A tuple that lost its last entry.
ThreeShells == <<bash, zsh, fish>>

SUPPORTED_SHELLS == <<bash, zsh, fish, powershell>>

\* getters.GETTERS: ClickGetter is defined and appended only when click
\* could be imported.
GETTERS(clickImported) ==
    IF clickImported THEN <<"ArgparseGetter", "ClickGetter">>
    ELSE <<"ArgparseGetter">>

\* The isinstance test a getter constructor makes on the object it is given.
Accepts(getterClass, obj) ==
    CASE getterClass = "ArgparseGetter" -> obj.type = "argparse.ArgumentParser"
      [] getterClass = "ClickGetter" ->
            obj.type \in {"click.Command", "click.Context"}

\* ClickGetter._get_top_command: a command is taken as it is; from a context
\* the parents are followed to the root context, whose command is taken.
\* A context is [type, command, parents], parents being the commands of its
\* ancestors' contexts, the nearest first: its parent is None when parents
\* is empty, and otherwise the context of parents[1] with the rest above it.
RECURSIVE _get_top_command(_)
_get_top_command(cmd_or_ctx) ==
    IF cmd_or_ctx.type = "click.Command" THEN cmd_or_ctx
    ELSE IF cmd_or_ctx.parents # <<>>
    THEN _get_top_command([type |-> "click.Context",
                           command |-> cmd_or_ctx.parents[1],
                           parents |-> Tail(cmd_or_ctx.parents)])
    ELSE cmd_or_ctx.command

\* getter(cli) for an object the constructor accepts: what the getter wraps.
Wrapped(getterClass, obj) ==
    IF getterClass = "ClickGetter" THEN _get_top_command(obj).view
    ELSE obj.view

\* A chain that gives up at the first constructor that rejects the object.
FirstOnly(getters, obj, i) ==
    IF Accepts(getters[1], obj) THEN getters[1] ELSE ""

\* The for/else of Completer.__init__ from position i of the list on: the
\* class of the first getter that accepts cli, or "" when none is left.
RECURSIVE FirstAccepting(_, _, _)
FirstAccepting(getters, obj, i) ==
    IF i > Len(getters) THEN ""
    ELSE IF Accepts(getters[i], obj) THEN getters[i]
    ELSE FirstAccepting(getters, obj, i + 1)

\* The prog argument of Completer: None (the default), or a list of names.
NoProg == [given |-> FALSE]
Prog(names) == [given |-> TRUE, names |-> names]

\* Completer.__init__(cli, prog)
NewCompleter(clickImported, obj, prog, path) ==
    LET class == FirstAccepting(GETTERS(clickImported), obj, 1)
    IN  IF class = ""
        THEN Raise("NotSupportedError",
                   <<"CLI object type <class '", obj.type,
                     "'> is not supported yet. ">>)
        ELSE Return([getter_class |-> class,
                     getter |-> Wrapped(class, obj),
                     prog |-> IF prog = NoProg THEN <<basename(path)>>
                              ELSE prog.names])

\* A resolver that tests `shell is None` where the code tests `not shell`.
get_shell_type_IsNone(environ) ==
    IF environ = None
    THEN Raise("RuntimeError",
               <<"Could not read SHELL environment variable. ">>)
    ELSE Return(basename(environ))

\* Completer.get_shell_type, environ being the value of SHELL (None: unset)
get_shell_type(environ) ==
    IF ~Truthy(environ)
    THEN Raise("RuntimeError",
               <<"Could not read SHELL environment variable. ">>)
    ELSE Return(basename(environ))

\* getattr(self, "render_{}".format(shell))()
RenderMethod(self, shell) ==
    CASE shell = bash -> render_bash(self)
      [] shell = zsh -> render_zsh(self)
      [] shell = fish -> render_fish(self)
      [] shell = powershell -> render_powershell(self)

\* Completer.render(shell), environ being the value of SHELL
render(self, shell, environ) ==
    LET resolved ==
            IF shell = None THEN get_shell_type(environ) ELSE Return(shell)
    IN  IF ~resolved.ok THEN resolved
        ELSE IF resolved.value \notin Range(SUPPORTED_SHELLS)
        THEN Raise("ValueError",
                   <<"[shell] argument must be one of ">>
                   \o join(<<",", " ">>, SUPPORTED_SHELLS))
        ELSE RenderMethod(self, resolved.value)

-----------------------------------------------------------------------------
(* The inputs: command trees, CLI objects, prog lists, environments.       *)

\* The size of a command tree is the number of options and commands in it,
\* the root not counted.
MaxSize == 3
\* The longest prog list.
MaxAliases == 2

AliasNames == { <<"a", "p", "p">>, <<"m", "y", "-", "a", "p", "p">> }

\* The names and help texts the trees are made of.  A long option, a long
\* option with a colon in its name, a short one; help that is absent (None),
\* empty, or holds a single quote.
LongA == <<"-", "-", "a">>
LongBC == <<"-", "-", "b", ":", "c">>
ShortV == <<"-", "v">>
CmdA == <<"a">>
CmdAB == <<"a", "-", "b">>
Quoted == <<"p", "'">>

\* The (name, help) pairs an option is drawn from, and those of a command.
OptionChoices ==
    { <<LongA, None>>, <<LongA, Quoted>>, <<LongBC, <<>>>>, <<ShortV, Quoted>> }
CommandChoices ==
    { <<CmdA, None>>, <<CmdA, Quoted>>, <<CmdAB, <<>>>>, <<CmdAB, Quoted>> }

\* The lists of k (name, help) pairs with k different names.
RECURSIVE OptionLists(_)
OptionLists(k) ==
    IF k = 0 THEN { <<>> }
    ELSE UNION { { Append(l, o) :
                     o \in { c \in OptionChoices : c[1] \notin Range(Names(l)) } } :
                 l \in OptionLists(k - 1) }

\* Gen[n]: the command bodies (options and subcommands) of size exactly n,
\* and the dicts of commands of size exactly n, a command in a dict counting
\* for one more than its body.
Gen[n \in Nat] ==
    LET dicts ==
            IF n = 0 THEN { <<>> }
            ELSE UNION { UNION { { << <<c[1], [help |-> c[2],
                                             options |-> body.options,
                                             commands |-> body.commands]>> >>
                                   \o rest :
                                     c \in { x \in CommandChoices :
                                               x[1] \notin Range(Names(rest)) },
                                     body \in Gen[k].bodies } :
                                 rest \in Gen[n - 1 - k].dicts } :
                         k \in 0..(n - 1) }
        DictsOf(m) == IF m = n THEN dicts ELSE Gen[m].dicts
    IN  [dicts |-> dicts,
         bodies |->
            UNION { { [options |-> o, commands |-> d] :
                        o \in OptionLists(k), d \in DictsOf(n - k) } :
                    k \in 0..n }]

\* The roots of the command trees of size at most n.  No renderer reads the
\* help of the root: it is None here.
Trees(n) ==
    UNION { { [help |-> None, options |-> body.options,
               commands |-> body.commands] : body \in Gen[m].bodies } :
            m \in 0..n }

\* The prog lists: one to MaxAliases names.
RECURSIVE ProgsOfLen(_)
ProgsOfLen(k) ==
    IF k = 0 THEN { <<>> }
    ELSE { Append(p, a) : p \in ProgsOfLen(k - 1), a \in AliasNames }

Progs == UNION { ProgsOfLen(k) : k \in 1..MaxAliases }

\* sys.argv[0], resolved
Argv0s == { <<"/", "x", "/", "a", "-", "b">>, <<"/", "y">> }

\* Values of the SHELL environment variable: unset, empty, a path to a
\* supported shell, the name of an unsupported one.
EnvValues == { None, <<>>, <<"/", "b", "i", "n", "/">> \o zsh,
               <<"t", "c", "s", "h">> }

\* Values of the shell argument of render.
ShellArgs ==
    Range(SUPPORTED_SHELLS) \cup { None, <<>>, <<"t", "c", "s", "h">> }

NoObject == [type |-> "none"]
NoCompleter == [getter_class |-> ""]
NoCall == [op |-> "none"]
NoResult == [ok |-> TRUE, value |-> None]

ArgumentParser(view) == [type |-> "argparse.ArgumentParser", view |-> view]
ClickCommand(view) == [type |-> "click.Command", view |-> view]

\* The command trees behind the CLI objects of Spec: the empty one, one with
\* an option, one with a command without help, one with a command with help.
CliViews ==
    { t \in Trees(1) :
        /\ \A i \in DOMAIN t.options : t.options[i] = <<LongA, Quoted>>
        /\ \A i \in DOMAIN t.commands : t.commands[i][1] = CmdA }

\* The CLI objects handed to Completer in Spec: argument parsers and click
\* commands over these trees, click contexts with and without a parent
\* context, and an object of neither framework.
ContextCommands == { ClickCommand(t) : t \in { v \in CliViews : v.options = <<>> } }

CliObjects ==
    { ArgumentParser(t) : t \in CliViews }
    \cup { ClickCommand(t) : t \in CliViews }
    \cup { [type |-> "click.Context", command |-> c, parents |-> ps] :
             c \in ContextCommands,
             ps \in { <<>> } \cup { <<d>> : d \in ContextCommands } }
    \cup { [type |-> "object"] }

-----------------------------------------------------------------------------
(* Spec: a program constructs a Completer and calls render and             *)
(* get_shell_type on it.                                                   *)

Init ==
    /\ click \in BOOLEAN
    /\ env \in EnvValues
    /\ argv0 \in Argv0s
    /\ cli = NoObject
    /\ completer = NoCompleter
    /\ call = NoCall
    /\ result = NoResult

\* completer = Completer(obj, prog): the first call of the program, which
\* goes on only if it gave a Completer.
Construct(obj, prog) ==
    /\ call = NoCall
    /\ cli' = obj
    /\ call' = [op |-> "Completer", prog |-> prog]
    /\ result' = NewCompleter(click, obj, prog, argv0)
    /\ completer' = IF result'.ok THEN result'.value ELSE completer
    /\ UNCHANGED <<click, env, argv0>>

\* completer.render(shell)
Render(shell) ==
    /\ completer # NoCompleter
    /\ call' = [op |-> "render", shell |-> shell]
    /\ result' = render(completer, shell, env)
    /\ UNCHANGED <<click, env, argv0, cli, completer>>

\* completer.get_shell_type()
GetShellType ==
    /\ completer # NoCompleter
    /\ call' = [op |-> "get_shell_type"]
    /\ result' = get_shell_type(env)
    /\ UNCHANGED <<click, env, argv0, cli, completer>>

Next ==
    \/ \E obj \in CliObjects, prog \in { Prog(p) : p \in Progs } \cup { NoProg } :
          Construct(obj, prog)
    \/ \E shell \in ShellArgs : Render(shell)
    \/ GetShellType

Spec == Init /\ [][Next]_vars

-----------------------------------------------------------------------------
(* SpecRender: the four renderers as functions of the command tree and of  *)
(* prog, called on a Completer constructed over an argument parser.        *)

DefaultProg == <<<<"a", "p", "p">>>>

\* A script name with capitals, a dash and a character that is neither a
\* word character nor a dash.
MixedName == <<"M", "y", "-", "a", ".", "b">>

\* The (tree, prog) pairs rendered: every tree of size at most MaxSize under
\* the one-name prog, and every prog list, and the mixed name, over the
\* trees of size at most 1.
RenderInputs ==
    { <<t, DefaultProg>> : t \in Trees(MaxSize) }
    \cup (Trees(1) \X (Progs \cup { <<MixedName>> }))

InitRender ==
    /\ click = TRUE
    /\ env = None
    /\ argv0 \in Argv0s
    /\ \E in \in RenderInputs :
          /\ cli = ArgumentParser(in[1])
          /\ completer = NewCompleter(click, cli, Prog(in[2]), argv0).value
    /\ call = NoCall
    /\ result = NoResult

RenderBash ==
    /\ call' = [op |-> "render_bash"]
    /\ result' = render_bash(completer)
    /\ UNCHANGED <<click, env, argv0, cli, completer>>

RenderZsh ==
    /\ call' = [op |-> "render_zsh"]
    /\ result' = render_zsh(completer)
    /\ UNCHANGED <<click, env, argv0, cli, completer>>

RenderFish ==
    /\ call' = [op |-> "render_fish"]
    /\ result' = render_fish(completer)
    /\ UNCHANGED <<click, env, argv0, cli, completer>>

RenderPowershell ==
    /\ call' = [op |-> "render_powershell"]
    /\ result' = render_powershell(completer)
    /\ UNCHANGED <<click, env, argv0, cli, completer>>

NextRender == RenderBash \/ RenderZsh \/ RenderFish \/ RenderPowershell

SpecRender == InitRender /\ [][NextRender]_vars

-----------------------------------------------------------------------------
(* SpecGetters: get_options of the two getters over the declarations of    *)
(* one command level of the framework object.                              *)

\* The most actions of a parser, and parameters of a click command.
MaxParams == 2

LongX == <<"-", "-", "x">>
NoA == <<"-", "-", "n", "o", "-", "a">>

\* The actions of an argument parser: a positional, a short flag, a flag
\* with a short and a long spelling, one with two spellings of one length,
\* one with a single long spelling; with and without help.
Actions ==
    { [option_strings |-> o, help |-> h] :
        o \in { <<>>, <<ShortV>>, <<ShortV, LongA>>, <<LongX, LongA>>,
                <<LongBC>> },
        h \in { None, Quoted } }

\* The parameters of a click command.  An argument and a hidden option have
\* no help record; a boolean flag has secondary opts, its off-switch.
ClickOptions ==
    { [kind |-> "Option", opts |-> o, secondary_opts |-> s, help |-> h,
       hidden |-> hid,
       help_record |-> IF hid THEN None ELSE <<"opts", "help">>] :
        o \in { <<ShortV, LongA>>, <<LongX>> },
        s \in { <<>>, <<NoA>> },
        h \in { None, Quoted },
        hid \in BOOLEAN }

ClickArgument ==
    [kind |-> "Argument", opts |-> <<CmdA>>, secondary_opts |-> <<>>,
     help |-> None, hidden |-> FALSE, help_record |-> None]

RECURSIVE ListsOver(_, _)
ListsOver(S, k) ==
    IF k = 0 THEN { <<>> }
    ELSE ListsOver(S, k - 1)
         \cup { Append(l, x) : l \in { m \in ListsOver(S, k - 1) : Len(m) = k - 1 },
                               x \in S }

\* add_argument refuses an option string another action already has: the
\* actions of a parser share none.
Parsers ==
    { [type |-> "argparse.ArgumentParser", _actions |-> a] :
        a \in { l \in ListsOver(Actions, MaxParams) :
                  \A i, j \in DOMAIN l :
                     i # j => { l[i].option_strings[k] :
                                  k \in DOMAIN l[i].option_strings }
                              \cap { l[j].option_strings[k] :
                                       k \in DOMAIN l[j].option_strings } = {} } }

Commands ==
    { [type |-> "click.Command", params |-> ps] :
        ps \in ListsOver(ClickOptions \cup { ClickArgument }, MaxParams) }

InitGetters ==
    /\ click = TRUE
    /\ env = None
    /\ argv0 \in Argv0s
    /\ cli \in Parsers \cup Commands
    /\ completer = NoCompleter
    /\ call = NoCall
    /\ result = NoResult

\* list(ArgparseGetter(cli).get_options())
ArgparseGetOptions ==
    /\ Accepts("ArgparseGetter", cli)
    /\ call' = [op |-> "ArgparseGetter.get_options"]
    /\ result' = Return(ArgparseGetter_get_options(cli._actions))
    /\ UNCHANGED <<click, env, argv0, cli, completer>>

\* list(ClickGetter(cli).get_options())
ClickGetOptions ==
    /\ Accepts("ClickGetter", cli)
    /\ call' = [op |-> "ClickGetter.get_options"]
    /\ result' = Return(ClickGetter_get_options(_get_top_command(cli).params))
    /\ UNCHANGED <<click, env, argv0, cli, completer>>

NextGetters == ArgparseGetOptions \/ ClickGetOptions

SpecGetters == InitGetters /\ [][NextGetters]_vars

-----------------------------------------------------------------------------
(* SpecDescribe: _zsh_describe as a function of its two arguments.         *)

\* The longest value, and the longest description.
MaxValue == 2
MaxDesc == 3

\* What values and descriptions are made of: a plain character, and the
\* characters the quoting steps treat apart.
ValueChars == { "v", ":", "\"" }
DescChars == { "p", "\"", Backtick, ":", " ", "\\" }

Values == { v \in ListsOver(ValueChars, MaxValue) : v # <<>> }
Descriptions == ListsOver(DescChars, MaxDesc) \cup { None }

InitDescribe ==
    /\ click = TRUE
    /\ env = None
    /\ argv0 \in Argv0s
    /\ cli \in { [type |-> "arguments", value |-> v, description |-> d] :
                  v \in Values, d \in Descriptions }
    /\ completer = NoCompleter
    /\ call = NoCall
    /\ result = NoResult

\* self._zsh_describe(value, description)
ZshDescribe ==
    /\ call' = [op |-> "_zsh_describe"]
    /\ result' = Return(_zsh_describe(cli.value, cli.description))
    /\ UNCHANGED <<click, env, argv0, cli, completer>>

NextDescribe == ZshDescribe

SpecDescribe == InitDescribe /\ [][NextDescribe]_vars

-----------------------------------------------------------------------------
(* Text helpers of the properties.                                         *)

\* text.split(sep) for a one-element sep: the pieces between the seps.
Split(text, sep) ==
    LET at == { i \in DOMAIN text : text[i] = sep }
        Nth(k) == IF k = 0 THEN 0
                  ELSE IF k > Cardinality(at) THEN Len(text) + 1
                  ELSE CHOOSE i \in at : Cardinality({ j \in at : j <= i }) = k
    IN  [k \in 1..(Cardinality(at) + 1) |->
            SubSeq(text, Nth(k - 1) + 1, Nth(k) - 1)]

\* The pieces of text between seps, none for an empty text.
Pieces(text, sep) == IF text = <<>> THEN <<>> ELSE Split(text, sep)

\* pat occurs in text.
Contains(text, pat) ==
    \E i \in 0..(Len(text) - Len(pat)) : SubSeq(text, i + 1, i + Len(pat)) = pat

\* The last path segment of p: what follows its last "/".
IsLastSegment(seg, p) ==
    /\ "/" \notin Range(seg)
    /\ \E k \in 0..Len(p) :
          /\ seg = SubSeq(p, k + 1, Len(p))
          /\ k = 0 \/ p[k] = "/"

FourShells == { bash, zsh, fish, powershell }

-----------------------------------------------------------------------------
(* C1 -- Completer(cli, prog) tries the registered getter constructors in  *)
(* list order and keeps the first that accepts cli, a rejection only       *)
(* making the chain go on; when every registered constructor rejects cli,  *)
(* construction raises NotSupportedError, whose message names the type of  *)
(* cli, and no Completer is produced.                                      *)
C1_FirstAcceptingGetter ==
    call.op = "Completer" =>
        LET registered == GETTERS(click)
            accepting == { i \in DOMAIN registered : Accepts(registered[i], cli) }
        IN  /\ accepting # {} =>
                /\ result.ok
                /\ completer = result.value
                /\ \E i \in accepting :
                      /\ completer.getter_class = registered[i]
                      /\ \A j \in accepting : i <= j
            /\ accepting = {} =>
                /\ ~result.ok
                /\ result.exc = "NotSupportedError"
                /\ cli.type \in Range(result.msg)
                /\ completer = NoCompleter

\* The second constructor of the list accepted what the first rejected.
C1_Witness ==
    /\ call.op = "Completer"
    /\ result.ok
    /\ completer.getter_class = "ClickGetter"
    /\ ~Accepts("ArgparseGetter", cli)

C3_Original_BasenameUnlessAbsent ==
    call.op = "get_shell_type" =>
        /\ env = None => (~result.ok /\ result.exc = "RuntimeError")
        /\ env # None => (result.ok /\ IsLastSegment(result.value, env))

(* C3, amended -- get_shell_type raises RuntimeError when SHELL is absent  *)
(* or empty, and otherwise returns the last path segment of its value,     *)
(* whether or not that is a supported dialect; render consults the         *)
(* resolver only when shell is omitted: with a shell passed, its outcome   *)
(* is the same under every value of SHELL, and with none passed and SHELL  *)
(* absent or empty it raises the resolver's RuntimeError.                  *)
C3_ResolverAndExplicitShell ==
    /\ call.op = "get_shell_type" =>
          /\ env \in { None, <<>> } => (~result.ok /\ result.exc = "RuntimeError")
          /\ env \notin { None, <<>> } =>
                (result.ok /\ IsLastSegment(result.value, env))
    /\ (call.op = "render" /\ call.shell # None) =>
          \A e \in EnvValues : result = render(completer, call.shell, e)
    /\ (call.op = "render" /\ call.shell = None /\ env \in { None, <<>> }) =>
          (~result.ok /\ result.exc = "RuntimeError")

\* The resolver was called with SHELL set and empty, and raised.
C3_Witness ==
    /\ call.op = "get_shell_type"
    /\ env = <<>>
    /\ ~result.ok

-----------------------------------------------------------------------------
(* Reading a rendered mapping back.                                        *)

Renderers == { "render_bash", "render_zsh", "render_fish", "render_powershell" }

\* A renderer was called and returned its mapping.
Rendered(dialect) == call.op = dialect /\ result.ok

\* The tree and prog the Completer was constructed over.
Root == completer.getter
RootCommandNames == Range(Names(get_commands(Root)))

\* The lines of a text.
Lines(text) == Pieces(text, "\n")

\* The elements of xs that satisfy Keep, in order.
Filter(xs, Keep(_)) ==
    LET kept == { i \in DOMAIN xs : Keep(xs[i]) }
    IN  [k \in 1..Cardinality(kept) |->
            xs[CHOOSE i \in kept : Cardinality({ j \in kept : j <= i }) = k]]

\* What stands in s before the first element that is in stops.
RECURSIVE Before(_, _)
Before(s, stops) ==
    IF s = <<>> \/ s[1] \in stops THEN <<>>
    ELSE <<s[1]>> \o Before(Tail(s), stops)

\* The command names of the list of commands of a mapping (coms, and
\* cmds_names in fish), in the order they stand there.
ListedNames(out) ==
    CASE out.template = "bash" -> Pieces(out.coms, " ")
      [] out.template = "zsh" ->
            LET tokens == Pieces(out.coms, " ")
            IN  [i \in DOMAIN tokens |-> Before(Tail(tokens[i]), {":", "\""})]
      [] out.template = "fish" -> Pieces(out.cmds_names, " ")
      [] out.template = "powershell" ->
            LET tokens == Pieces(out.coms, ", ")
            IN  [i \in DOMAIN tokens |-> Before(Tail(tokens[i]), {"\""})]

\* The command names that head the per-command blocks of a mapping
\* (command_list, and the blocks of the root's commands in cmds of fish), in
\* the order the blocks stand there.
BlockNames(out) ==
    CASE out.template \in {"bash", "zsh"} ->
            LET IsHead(line) == line # <<>> /\ line[1] = "            ("
                heads == Filter(Lines(out.command_list), IsHead)
            IN  [i \in DOMAIN heads |-> Before(Tail(heads[i]), {")"})]
      [] out.template = "fish" ->
            LET IsHead(line) ==
                    /\ line # <<>>
                    /\ line[1] = "# "
                    /\ Tail(line) \in RootCommandNames
                heads == Filter(Lines(out.cmds), IsHead)
            IN  [i \in DOMAIN heads |-> Tail(heads[i])]
      [] out.template = "powershell" ->
            LET lines == Lines(out.command_list)
            IN  [i \in DOMAIN lines |->
                    Before(Tail(lines[i]), {"\" { $opts = @("})]

Ascending(names) ==
    \A i, j \in DOMAIN names : i < j => StrLT(names[i], names[j])

(* C4 -- in the output of every dialect the command names stand in         *)
(* ascending order in the list of commands (coms / cmds_names) and in the  *)
(* sequence of per-command blocks (command_list / cmds), whatever the      *)
(* order the getter enumerates the commands in and whatever their help.    *)
C4_CommandListsAscending ==
    (call.op \in Renderers /\ result.ok) =>
        /\ Ascending(ListedNames(result.value))
        /\ Ascending(BlockNames(result.value))

(* C6 -- for a prog of n >= 1 aliases: the bash output has exactly n        *)
(* binding lines, one per alias, the first included, each binding the      *)
(* generated function to that alias; the zsh output has exactly n - 1, one *)
(* per secondary alias and none for the first; the powershell renderer     *)
(* writes no binding line and lists the n aliases, in the given order, as  *)
(* a quoted literal array.                                                 *)
C6_BindingLinesPerAlias ==
    LET prog == completer.prog
        out == result.value
    IN  /\ Rendered("render_bash") =>
              Lines(out.compdefs) =
                  [i \in 1..Len(prog) |->
                      <<"complete -o default -F ">> \o out.function \o <<" ">>
                      \o prog[i]]
        /\ Rendered("render_zsh") =>
              Lines(out.compdefs) =
                  [i \in 1..(Len(prog) - 1) |->
                      <<"compdef ">> \o out.function \o <<" ">> \o prog[i + 1]]
        /\ Rendered("render_powershell") =>
              /\ "compdefs" \notin DOMAIN out
              /\ Pieces(out.aliases, ", ") =
                    [i \in 1..Len(prog) |-> <<"\"">> \o prog[i] \o <<"\"">>]

\* zsh rendered a prog of two aliases: one binding line, for the second.
C6_Witness ==
    /\ Rendered("render_zsh")
    /\ Len(completer.prog) = 2
    /\ Len(Lines(result.value.compdefs)) = 1

(* C8 -- for every command tree the data model allows, a root without      *)
(* options and commands and trees with absent (None) or empty help         *)
(* included, render returns a script in each of the four dialects.         *)
C8_RenderAlwaysReturns ==
    call.op \in Renderers =>
        /\ result.ok
        /\ { "script_name", "function", "opts", "version" } \subseteq
              DOMAIN result.value

\* The help the global option list of zsh is claimed to show for the root
\* option named o: that of the last command, in the order the getter
\* enumerates them, that has an option of that name, and the root's own help
\* when there is none.
LastWrittenHelp(o) ==
    LET cmds == get_commands(Root)
        having == { i \in DOMAIN cmds : o \in Range(OptionNames(cmds[i][2])) }
    IN  IF having = {} THEN DictGet(get_options(Root), o)
        ELSE DictGet(get_options(
                 cmds[CHOOSE i \in having : \A j \in having : j <= i][2]), o)

\* The text between the brackets of the opts line of the block headed name.
BlockOpts(out, name) ==
    LET lines == Lines(out.command_list)
        head == CHOOSE i \in DOMAIN lines :
                    lines[i] = <<"            (">> \o name \o <<")">>
    IN  SubSeq(lines[head + 1], 2, Len(lines[head + 1]) - 1)

(* C9 -- in zsh the descriptions of the global option list come from one   *)
(* name-to-help mapping shared by the root and its immediate subcommands,  *)
(* written in traversal order, the last write winning: a root option whose *)
(* name recurs in a subcommand is listed with the help written last, the   *)
(* subcommand's, while the block of each subcommand shows that             *)
(* subcommand's own help for its options.                                  *)
C9_ZshLastWriteWins ==
    Rendered("render_zsh") =>
        LET out == result.value
            cmds == get_commands(Root)
        IN  /\ Range(Pieces(out.opts, " ")) =
                  { _zsh_describe(o, LastWrittenHelp(o)) :
                      o \in Range(OptionNames(Root)) }
            /\ \A i \in DOMAIN cmds :
                  Range(Pieces(BlockOpts(out, cmds[i][1]), " ")) =
                      { _zsh_describe(o[1], o[2]) :
                          o \in Range(get_options(cmds[i][2])) }

\* A root option recurs in a subcommand with another help, and the global
\* list shows the subcommand's help, not the root's.
C9_Witness ==
    /\ Rendered("render_zsh")
    /\ \E o \in Range(get_options(Root)) :
          \E i \in DOMAIN get_commands(Root) :
             \E q \in Range(get_options(get_commands(Root)[i][2])) :
                /\ q[1] = o[1]
                /\ _zsh_describe(q[1], q[2]) # _zsh_describe(o[1], o[2])
                /\ _zsh_describe(q[1], q[2]) \in
                      Range(Pieces(result.value.opts, " "))
                /\ _zsh_describe(o[1], o[2]) \notin
                      Range(Pieces(result.value.opts, " "))

\* The names of a set in ascending order, each once.
AscendingSeq(S) ==
    CHOOSE s \in [1..Cardinality(S) -> S] : Range(s) = S /\ Ascending(s)

\* One block per command of the root, headed by its name.
OneBlockPerCommand(out) ==
    /\ Len(BlockNames(out)) = Cardinality(RootCommandNames)
    /\ Range(BlockNames(out)) = RootCommandNames

(* C10 -- as claimed: in bash the global opts and the opts of the block of *)
(* every immediate subcommand are the option names of the root, and of     *)
(* that subcommand, joined by spaces, ascending, none twice, without help; *)
(* there is one block per immediate subcommand, headed by its name.        *)
C10_Original_BashOptsAreTheNames ==
    Rendered("render_bash") =>
        LET out == result.value
            cmds == get_commands(Root)
        IN  /\ out.opts = join(<<" ">>, AscendingSeq(Range(OptionNames(Root))))
            /\ OneBlockPerCommand(out)
            /\ \A i \in DOMAIN cmds :
                  BlockOpts(out, cmds[i][1]) =
                      join(<<" ">>,
                           AscendingSeq(Range(OptionNames(cmds[i][2]))))

\* A name as a case block of bash writes it: a backslash before each colon,
\* and no double quote left at either end.
BlockSpelling(name) == strip(replace(name, ":", <<"\\", ":">>), "\"")

(* C10, amended -- the global opts are the option names of the root,       *)
(* joined by spaces, ascending, none twice; the opts of the block of an    *)
(* immediate subcommand are its option names in ascending order, none      *)
(* twice, each written with a backslash before every colon and without     *)
(* leading or trailing double quotes; neither carries help; there is one   *)
(* block per immediate subcommand, headed by its name.                     *)
C10_BashOptsSortedOnceEach ==
    Rendered("render_bash") =>
        LET out == result.value
            cmds == get_commands(Root)
        IN  /\ out.opts = join(<<" ">>, AscendingSeq(Range(OptionNames(Root))))
            /\ OneBlockPerCommand(out)
            /\ \A i \in DOMAIN cmds :
                  LET names == AscendingSeq(Range(OptionNames(cmds[i][2])))
                  IN  BlockOpts(out, cmds[i][1]) =
                          join(<<" ">>,
                               [j \in DOMAIN names |-> BlockSpelling(names[j])])

\* bash rendered a subcommand with two options, one with a colon in its
\* name, the getter yielding them in descending order.
C10_Witness ==
    /\ Rendered("render_bash")
    /\ \E i \in DOMAIN get_commands(Root) :
          /\ OptionNames(get_commands(Root)[i][2]) = <<ShortV, LongBC>>
          /\ BlockOpts(result.value, get_commands(Root)[i][1]) =
                <<"-", "-", "b", "\\", ":", "c", " ", "-", "v">>

\* The options reachable from a command, each with the path of command names
\* that leads from the root to its owner.
RECURSIVE OwnedOptions(_, _)
OwnedOptions(getter, path) ==
    { [path |-> path, name |-> o[1], help |-> o[2]] :
        o \in Range(get_options(getter)) }
    \cup UNION { OwnedOptions(c[2], Append(path, c[1])) :
                   c \in Range(get_commands(getter)) }

\* text begins with start.
StartsWith(text, start) ==
    Len(start) <= Len(text) /\ SubSeq(text, 1, Len(start)) = start

\* The text between the brackets of the powershell block of a command.
PowershellBlockOpts(out, name) ==
    LET lines == Lines(out.command_list)
        start == <<"                \"">> \o name \o <<"\" { $opts = @(">>
        line == CHOOSE l \in Range(lines) : StartsWith(l, start)
    IN  SubSeq(line, Len(start) + 1, Len(line) - 1)

\* The tokens of the list that should show an option: the global list for
\* an option of the root, the block of its owner for another, nothing when
\* the owner has no block.
OwnerTokens(out, o) ==
    IF o.path = <<>>
    THEN Range(Pieces(out.opts, IF out.template = "powershell" THEN ", " ELSE " "))
    ELSE IF Len(o.path) > 1 THEN {}
    ELSE IF out.template = "powershell"
    THEN Range(Pieces(PowershellBlockOpts(out, o.path[1]), ", "))
    ELSE Range(Pieces(BlockOpts(out, o.path[1]), " "))

\* A fish rule for option o: a complete line gated on the path of its owner
\* (on no subcommand being seen, for the root) that offers the name, dashes
\* dropped, as a long or a short option.
IsFishRule(line, out, o) ==
    /\ StartsWith(line, <<"complete -c ">> \o out.script_name)
    /\ IF o.path = <<>>
       THEN Contains(line, <<" -n '__fish">> \o out.function
                           \o <<"_no_subcommand'">>)
       ELSE \A i \in DOMAIN o.path :
               Contains(line, <<"__fish_seen_subcommand_from ">> \o o.path[i])
    /\ \E flag \in { " -l ", " -s " } :
          Contains(line, <<flag>> \o lstrip(o.name, "-") \o <<" -d '">>)

(* C5 -- for every option reachable from the root: the bash, zsh and       *)
(* powershell outputs show its name (zsh its help too) in the global       *)
(* option list or in the block of the command that owns it, and the fish   *)
(* output has a completion rule for it gated on the path of its owner.     *)
C5_EveryReachableOptionRendered ==
    call.op \in Renderers =>
        /\ result.ok
        /\ \A o \in OwnedOptions(Root, <<>>) :
              LET out == result.value
              IN  CASE out.template = "bash" ->
                         \/ o.name \in OwnerTokens(out, o)
                         \/ BlockSpelling(o.name) \in OwnerTokens(out, o)
                    [] out.template = "zsh" ->
                         _zsh_describe(o.name, o.help) \in OwnerTokens(out, o)
                    [] out.template = "powershell" ->
                         <<"\"">> \o o.name \o <<"\"">> \in OwnerTokens(out, o)
                    [] out.template = "fish" ->
                         \E line \in Range(Lines(out.opts)) \cup
                                     Range(Lines(out.cmds)) :
                            IsFishRule(line, out, o)

\* A call of get_options returned.
Got(getter) == call.op = getter /\ result.ok

\* name is a longest spelling of xs, and the first of that length.
IsLongestOf(name, xs) ==
    \E i \in DOMAIN xs :
       /\ xs[i] = name
       /\ \A j \in DOMAIN xs : Len(xs[j]) <= Len(name)
       /\ \A j \in DOMAIN xs : j < i => Len(xs[j]) < Len(name)

\* No two pairs of a list have one name.
DistinctNames(pairs) ==
    \A i, j \in DOMAIN pairs : pairs[i][1] = pairs[j][1] => i = j

\* The flags of a parser, and the options of a click command, in the order
\* they were declared.
DeclaredFlags ==
    LET IsFlag(a) == a.option_strings # <<>> IN Filter(cli._actions, IsFlag)
DeclaredOptions ==
    LET IsOption(p) == p.kind = "Option" IN Filter(cli.params, IsOption)
ShownOptions ==
    LET IsShown(p) == p.kind = "Option" /\ ~p.hidden
    IN  Filter(cli.params, IsShown)

(* C7, as claimed -- get_options yields exactly one (name, help) pair for  *)
(* each option declared at the command level and none for a positional;    *)
(* the name is the longest of the spellings of that option, the names of   *)
(* one command differ pairwise, and the help is that of the option.        *)
C7_Original_OnePairPerOption ==
    /\ Got("ArgparseGetter.get_options") =>
          /\ Len(result.value) = Len(DeclaredFlags)
          /\ \A i \in DOMAIN DeclaredFlags :
                /\ IsLongestOf(result.value[i][1],
                               DeclaredFlags[i].option_strings)
                /\ result.value[i][2] = DeclaredFlags[i].help
          /\ DistinctNames(result.value)
    /\ Got("ClickGetter.get_options") =>
          /\ Len(result.value) = Len(DeclaredOptions)
          /\ \A i \in DOMAIN DeclaredOptions :
                /\ IsLongestOf(result.value[i][1],
                               DeclaredOptions[i].opts
                               \o DeclaredOptions[i].secondary_opts)
                /\ result.value[i][2] = DeclaredOptions[i].help
          /\ DistinctNames(result.value)

\* No spelling stands twice among the options a getter reads.
NoSpellingTwice(options, Spellings(_)) ==
    \A i, j \in DOMAIN options :
       i # j => Range(Spellings(options[i])) \cap Range(Spellings(options[j])) = {}

\* Where the first pair of the i-th shown option stands in the pairs of a
\* click command: after one pair for each option before it and one more for
\* each of these that has secondary opts.
FirstPairOf(i) ==
    i + Cardinality({ j \in 1..(i - 1) : ShownOptions[j].secondary_opts # <<>> })

(* C7, amended -- ArgparseGetter.get_options yields, in the order of        *)
(* declaration, exactly one (name, help) pair for each action that has     *)
(* option strings and none for a positional.  ClickGetter.get_options      *)
(* yields pairs for the options that are not hidden and none for an        *)
(* argument or a hidden option: one pair named by the longest of the opts  *)
(* of the option and, when the option has secondary opts, a second pair    *)
(* right after it named by the longest of these, with the same help.       *)
(* The longest spelling is the first of the greatest length; the help is   *)
(* that of the option, possibly absent; the names yielded for an argument  *)
(* parser differ pairwise, and so do those yielded for a click command     *)
(* when no spelling is declared twice among its options that are not       *)
(* hidden.                                                                 *)
C7_PairsPerDeclaredOption ==
    /\ Got("ArgparseGetter.get_options") =>
          /\ Len(result.value) = Len(DeclaredFlags)
          /\ \A i \in DOMAIN DeclaredFlags :
                /\ IsLongestOf(result.value[i][1],
                               DeclaredFlags[i].option_strings)
                /\ result.value[i][2] = DeclaredFlags[i].help
          /\ DistinctNames(result.value)
    /\ Got("ClickGetter.get_options") =>
          LET AllOpts(p) == p.opts \o p.secondary_opts
              pairs == result.value
          IN  /\ Len(pairs) = FirstPairOf(Len(ShownOptions) + 1) - 1
              /\ \A i \in DOMAIN ShownOptions :
                    LET p == ShownOptions[i]
                        at == FirstPairOf(i)
                    IN  /\ IsLongestOf(pairs[at][1], p.opts)
                        /\ pairs[at][2] = p.help
                        /\ p.secondary_opts # <<>> =>
                              /\ IsLongestOf(pairs[at + 1][1], p.secondary_opts)
                              /\ pairs[at + 1][2] = p.help
              /\ NoSpellingTwice(ShownOptions, AllOpts) => DistinctNames(pairs)

\* A click command with an argument and a boolean flag spelled -v, --a and
\* --no-a gave two pairs, named by the long spelling and by the off-switch.
C7_Witness ==
    /\ Got("ClickGetter.get_options")
    /\ \E p \in Range(cli.params) : p.kind = "Argument"
    /\ Names(result.value) = <<LongA, NoA>>

\* The tree cut below the immediate subcommands of its root: what two trees
\* share when they differ only in what lies deeper.
CutBelowDepthOne(root) ==
    [root EXCEPT !.commands =
        [i \in DOMAIN root.commands |->
            <<root.commands[i][1],
              [root.commands[i][2] EXCEPT !.commands = <<>>]>>]]

\* The path of every command of a tree, the root's own excluded.
RECURSIVE CommandPaths(_, _)
CommandPaths(getter, parents) ==
    UNION { { Append(parents, c[1]) }
            \cup CommandPaths(c[2], Append(parents, c[1])) :
              c \in Range(get_commands(getter)) }

\* The paths the block headers of a fish output name, in the order of the
\* blocks: the lines "# p1 .. pk name".
FishHeaders(out) ==
    LET IsHeader(line) ==
            /\ line # <<>>
            /\ line[1] = "# "
            /\ line[Len(line)] # " subcommands"
        heads == Filter(Lines(out.cmds), IsHeader)
    IN  [i \in DOMAIN heads |-> Pieces(Tail(heads[i]), " ")]

\* p is q or an ancestor of q.
IsPrefix(p, q) == Len(p) <= Len(q) /\ SubSeq(q, 1, Len(p)) = p

\* Every path stands once, and the paths below a path stand right after it,
\* before any other.
DepthFirst(paths) ==
    /\ \A i, j \in DOMAIN paths : paths[i] = paths[j] => i = j
    /\ \A i, j \in DOMAIN paths :
          IsPrefix(paths[i], paths[j]) /\ paths[i] # paths[j] => i < j
    /\ \A i, j, k \in DOMAIN paths :
          i < j /\ j < k /\ IsPrefix(paths[i], paths[k]) =>
              IsPrefix(paths[i], paths[j])

(* C11 -- only fish renders depth greater than 1: the bash, zsh and        *)
(* powershell outputs for a tree are those for the tree cut below the      *)
(* immediate subcommands of the root, so two trees that differ only deeper *)
(* render alike; the fish output has a block for every command at every    *)
(* depth, the block of a command being followed by the blocks of its own   *)
(* subcommands before the block of its next sibling.                       *)
C11_OnlyFishRendersDepth ==
    LET cut == [completer EXCEPT !.getter = CutBelowDepthOne(Root)]
    IN  /\ call.op = "render_bash" => result = render_bash(cut)
        /\ call.op = "render_zsh" => result = render_zsh(cut)
        /\ call.op = "render_powershell" => result = render_powershell(cut)
        /\ call.op = "render_fish" =>
              /\ result.ok
              /\ Range(FishHeaders(result.value)) = CommandPaths(Root, <<>>)
              /\ DepthFirst(FishHeaders(result.value))

\* The node of the tree a path of command names leads to.
RECURSIVE NodeAt(_, _)
NodeAt(getter, path) ==
    IF path = <<>> THEN getter
    ELSE NodeAt(DictGet(get_commands(getter), path[1]), Tail(path))

\* "Every command of path has been seen", as a fish condition.
AllSeen(path) ==
    join(<<"; and ">>,
         [i \in DOMAIN path |-> <<"__fish_seen_subcommand_from ">> \o path[i]])

\* "No name of the variable of the level below parents has been seen".
NoneSeenOf(parents) ==
    <<"not __fish_seen_subcommand_from $">> \o join(<<"_">>, parents)
    \o <<"_subcommands">>

\* The set -l line that defines the variable of the level below parents.
SetLine(parents) ==
    <<"set -l ">> \o join(<<"_">>, parents) \o <<"_subcommands">> \o <<" ">>
    \o join(<<" ">>,
            AscendingSeq(Range(Names(get_commands(NodeAt(Root, parents))))))

\* The lines of the cmds of a fish output that start with the given text.
LinesStarting(out, start) ==
    { i \in DOMAIN Lines(out.cmds) : StartsWith(Lines(out.cmds)[i], start) }

\* The rule of the command at the end of path: gated on the generated
\* predicate at the root level, on its ancestors and on the variable of
\* their level below it.
CommandRule(out, path) ==
    LET parents == SubSeq(path, 1, Len(path) - 1)
    IN  <<"complete -c ">> \o out.script_name \o <<" -f -n '">>
        \o (IF parents = <<>>
            THEN <<"__fish">> \o out.function \o <<"_no_subcommand">>
            ELSE AllSeen(parents) \o <<"; and ">> \o NoneSeenOf(parents))
        \o <<"' -a ">> \o path[Len(path)] \o <<" -d '">>

\* How an option rule of the command at the end of path starts.
OptionRule(out, path) ==
    <<"complete -c ">> \o out.script_name \o <<" -A -n '">> \o AllSeen(path)
    \o <<"'", " -l ">>

(* C12 -- in fish the rule of a nested command with ancestors p1..pk is    *)
(* gated on every ancestor having been seen and on no name of the variable *)
(* of the level of its parent having been seen; a set -l line that stands  *)
(* earlier in the output than every rule naming the variable defines it as *)
(* the names of the subcommands of the parent, ascending; the rule of a    *)
(* command of the root is gated on the generated no-subcommand predicate   *)
(* alone; each option rule of a command is gated on all its ancestors and  *)
(* the command itself having been seen.                                    *)
C12_FishRulesGated ==
    Rendered("render_fish") =>
        LET out == result.value
            lines == Lines(out.cmds)
        IN  \A path \in CommandPaths(Root, <<>>) :
               /\ Cardinality(LinesStarting(out, CommandRule(out, path))) = 1
               /\ Cardinality(LinesStarting(out, OptionRule(out, path))) =
                     Len(get_options(NodeAt(Root, path)))
               /\ get_commands(NodeAt(Root, path)) # <<>> =>
                     /\ \E s \in DOMAIN lines : lines[s] = SetLine(path)
                     /\ \A r \in DOMAIN lines :
                           Contains(lines[r], NoneSeenOf(path)) =>
                               \E s \in 1..(r - 1) : lines[s] = SetLine(path)

\* fish rendered a command at depth three: its rule names the variable of
\* the two commands above it.
C12_Witness ==
    /\ Rendered("render_fish")
    /\ \E path \in CommandPaths(Root, <<>>) :
          /\ Len(path) = 3
          /\ \E r \in DOMAIN Lines(result.value.cmds) :
                Contains(Lines(result.value.cmds)[r],
                         NoneSeenOf(SubSeq(path, 1, 2)))

\* _zsh_describe returned a token.
Described == call.op = "_zsh_describe" /\ result.ok

\* How a token starts: the opening quote and the value, a backslash before
\* each of its colons.
TokenStart(value) == <<"\"">> \o replace(value, ":", <<"\\", ":">>)

\* What a token carries between the separator and its closing quote.
TokenDescription(token, value) ==
    SubSeq(token, Len(TokenStart(value)) + 2, Len(token) - 1)

\* How often c stands in text.
Count(c, text) == Cardinality({ i \in DOMAIN text : text[i] = c })

\* The character at i stands right after a backslash.
AfterBackslash(text, i) == i > 1 /\ text[i - 1] = "\\"

\* A token with a description: the start, the separator, and a closing
\* quote at the end.
HasSeparator(token, value) ==
    /\ Len(token) >= Len(TokenStart(value)) + 2
    /\ StartsWith(token, TokenStart(value) \o <<":">>)
    /\ token[Len(token)] = "\""

BackslashesBefore(text, i) ==
    CHOOSE k \in 0..(i - 1) :
       /\ \A j \in (i - k)..(i - 1) : text[j] = "\\"
       /\ i - k - 1 >= 1 => text[i - k - 1] # "\\"

(* C15 -- for every value and description the token of describe is one     *)
(* well-formed double-quoted word: it starts and ends with a double quote, *)
(* every other double quote in it has an odd number of backslashes before  *)
(* it, the closing quote an even number, and the quote-stripping step      *)
(* drops no character of the description.                                  *)
C15_TokenIsOneQuotedWord ==
    Described =>
        LET token == result.value
            desc == cli.description
        IN  /\ Len(token) >= 2
            /\ token[1] = "\""
            /\ token[Len(token)] = "\""
            /\ \A i \in 2..(Len(token) - 1) :
                  token[i] = "\"" => BackslashesBefore(token, i) % 2 = 1
            /\ BackslashesBefore(token, Len(token)) % 2 = 0
            /\ desc # None /\ desc # <<>> =>
                  \A c \in DescChars \ { "\\" } :
                     Count(c, TokenDescription(token, cli.value)) =
                         Count(c, desc)

\* The capitals and the small letters, in one order.
Capitals ==
    << "A", "B", "C", "D", "E", "F", "G", "H", "I", "J", "K", "L", "M",
       "N", "O", "P", "Q", "R", "S", "T", "U", "V", "W", "X", "Y", "Z" >>
SmallLetters ==
    << "a", "b", "c", "d", "e", "f", "g", "h", "i", "j", "k", "l", "m",
       "n", "o", "p", "q", "r", "s", "t", "u", "v", "w", "x", "y", "z" >>

\* c in lower case.
Lower(c) ==
    IF \E i \in DOMAIN Capitals : Capitals[i] = c
    THEN SmallLetters[CHOOSE i \in DOMAIN Capitals : Capitals[i] = c]
    ELSE c

\* A name with every dash turned into an underscore and every character
\* outside [A-Za-z0-9_] left out, each character first passed through Case.
Sanitized(name, Case(_)) ==
    LET IsWord(c) == c \in WordChars
    IN  Filter([i \in DOMAIN name |->
                   IF name[i] = "-" THEN "_" ELSE Case(name[i])], IsWord)

\* "_" + sanitized + "_" + the first 16 hex characters of the digest of the
\* path + "_complete".
FunctionName(sanitized, path) ==
    <<"_">> \o sanitized \o <<"_">> \o Md5Hex16(path) \o <<"_complete">>

SameCase(c) == c

=============================================================================
